---- MODULE Spec2Model ----
(***************************************************************************)
(* Model of freecad.assembly2mujoco.utils.helpers.log_message.             *)
(*                                                                         *)
(* Python values are records [type, val]: a str carries its characters as  *)
(* a sequence of one-character strings, so that concatenation, equality    *)
(* and str() are computed on the characters.  The FreeCAD console is the   *)
(* sequence of the calls made to its three Print* functions, in order.     *)
(* A call of log_message is followed line by line (pc); every completed    *)
(* call is recorded in history with the arguments as passed, the console   *)
(* calls it made and the way it ended.                                     *)
(***************************************************************************)
EXTENDS Naturals, Sequences, FiniteSets

\* Number of log_message calls followed in one behaviour.
MaxCalls == 2

VARIABLES pc, message, level, formatted_message, console, mark, passed, history

vars == <<pc, message, level, formatted_message, console, mark, passed, history>>

---------------------------------------------------------------------------
\* Python values

Str(s) == [type |-> "str", val |-> s]

None == [type |-> "NoneType", val |-> <<>>]

\* An int, carried by its decimal digits.
Int(digits) == [type |-> "int", val |-> digits]

\* The keyword argument `level` was not passed.
Absent == [type |-> "absent", val |-> <<>>]

\* A local that is not bound (no call in progress, or line 16 not run yet).
Unbound == [type |-> "unbound", val |-> <<>>]

S_info == <<"i", "n", "f", "o">>

S_warning == <<"w", "a", "r", "n", "i", "n", "g">>

S_error == <<"e", "r", "r", "o", "r">>

S_None == <<"N", "o", "n", "e">>

\* The prefix, "Assembly2MuJoCo".
WORKBENCH_NAME ==
    Str(<<"A", "s", "s", "e", "m", "b", "l", "y", "2", "M", "u", "J", "o", "C", "o">>)

\* str(v), as an f-string renders a value.
PyStr(v) ==
    IF v.type = "str" THEN v.val
    ELSE IF v.type = "NoneType" THEN S_None
    ELSE v.val

\* The result of a failed str + x.
TypeErrorValue == [type |-> "TypeError", val |-> <<>>]

StrAddCoerce(a, b) ==
    IF a.type = "TypeError" THEN a
    ELSE Str(PyStr(a) \o PyStr(b))

\* a + b with a a str: the concatenation, or a TypeError when b is not a str.
StrAdd(a, b) ==
    IF a.type = "TypeError" THEN a
    ELSE IF a.type = "str" /\ b.type = "str" THEN Str(a.val \o b.val)
    ELSE TypeErrorValue

LowerChar(c) ==
    IF c = "I" THEN "i" ELSE IF c = "N" THEN "n" ELSE IF c = "F" THEN "f"
    ELSE IF c = "O" THEN "o" ELSE IF c = "W" THEN "w" ELSE c

Lower(s) == [i \in 1..Len(s) |-> LowerChar(s[i])]

PyEqIgnoreCase(a, b) ==
    a.type = "str" /\ b.type = "str" /\ Lower(a.val) = Lower(b.val)

\* a == b for a str b: same type and the same characters.
PyEq(a, b) ==
    a.type = "str" /\ b.type = "str" /\ a.val = b.val

---------------------------------------------------------------------------
\* Ways a call ends

Returned == [kind |-> "return", text |-> <<>>, from |-> ""]

TypeError == [kind |-> "TypeError", text |-> <<>>, from |-> ""]

\* The exception a failing Print* function raises.
SinkException(sink) == [kind |-> "SinkError", text |-> <<>>, from |-> sink]

UnrecognizedFixed(lv) ==
    <<"U", "n", "r", "e", "c", "o", "g", "n", "i", "z", "e", "d", " ",
      "l", "o", "g", " ", "l", "e", "v", "e", "l">>

\* f"Unrecognized log level '{level}'"
UnrecognizedMessage(lv) ==
    <<"U", "n", "r", "e", "c", "o", "g", "n", "i", "z", "e", "d", " ",
      "l", "o", "g", " ", "l", "e", "v", "e", "l", " ", "'">>
    \o PyStr(lv) \o <<"'">>

ValueError(lv) == [kind |-> "ValueError", text |-> UnrecognizedMessage(lv), from |-> ""]

---------------------------------------------------------------------------
\* The arguments the calls are made with

Messages ==
    { Str(<<>>),
      Str(<<"x">>),
      Str(<<":", " ", "\n">>),
      Str(<<" ", "x", " ">>),
      None,
      Int(<<"7">>) }

Levels ==
    { Str(S_info), Str(S_warning), Str(S_error),
      Str(<<"I", "N", "F", "O">>),
      Str(<<"W", "a", "r", "n", "i", "n", "g">>),
      Str(<<" ", "i", "n", "f", "o">>),
      Str(<<"e", "r", "r">>),
      Str(<<>>),
      Str(<<"d", "e", "b", "u", "g">>),
      Str(S_None),
      None }

---------------------------------------------------------------------------
\* log_message

DefaultLevelWarning == Str(S_warning)

\* level: ... = "info"
DefaultLevel == Str(S_info)

\* The value `level` is bound to on entry.
BindLevel(lv) == IF lv = Absent THEN DefaultLevel ELSE lv

FormatMessageNoNewline(m) ==
    StrAdd(StrAdd(WORKBENCH_NAME, Str(<<":", " ">>)), m)

FormatMessageCoerce(m) ==
    StrAdd(StrAddCoerce(StrAdd(WORKBENCH_NAME, Str(<<":", " ">>)), m), Str(<<"\n">>))

\* WORKBENCH_NAME + ": " + message + "\n"
FormatMessage(m) ==
    StrAdd(StrAdd(StrAdd(WORKBENCH_NAME, Str(<<":", " ">>)), m), Str(<<"\n">>))

BranchSwapped(lv) ==
    IF PyEq(lv, Str(S_info)) THEN "PrintMessage"
    ELSE IF PyEq(lv, Str(S_warning)) THEN "PrintError"
    ELSE IF PyEq(lv, Str(S_error)) THEN "PrintWarning"
    ELSE "raise"

BranchElseInfo(lv) ==
    IF PyEq(lv, Str(S_warning)) THEN "PrintWarning"
    ELSE IF PyEq(lv, Str(S_error)) THEN "PrintError"
    ELSE "PrintMessage"

\* The if / elif / elif / else chain: the console function called, or "raise".
Branch(lv) ==
    IF PyEq(lv, Str(S_info)) THEN "PrintMessage"
    ELSE IF PyEq(lv, Str(S_warning)) THEN "PrintWarning"
    ELSE IF PyEq(lv, Str(S_error)) THEN "PrintError"
    ELSE "raise"

\* The console after App.Console.<sink>(text) was called.
Emit(sink, text) == Append(console, [sink |-> sink, text |-> text])

\* The call returns or raises: it is recorded (with the console functions that
\* raised during it) and no call is in progress.
Finish(cons, result, raised) ==
    /\ history' = Append(history,
                         [message |-> message,
                          level   |-> passed,
                          writes  |-> SubSeq(cons, mark + 1, Len(cons)),
                          raised  |-> raised,
                          result  |-> result])
    /\ pc' = "idle"
    /\ message' = Unbound
    /\ level' = Unbound
    /\ passed' = Unbound
    /\ formatted_message' = Unbound
    /\ mark' = Len(cons)

\* log_message(m, level=lv), or log_message(m) when lv is Absent, is entered.
Call(m, lv) ==
    /\ pc = "idle"
    /\ Len(history) < MaxCalls
    /\ message' = m
    /\ passed' = lv
    /\ level' = BindLevel(lv)
    /\ pc' = "line16"
    /\ UNCHANGED <<formatted_message, console, mark, history>>

\* Line 16: the string is built, or the concatenation raises.
Format ==
    /\ pc = "line16"
    /\ LET f == FormatMessage(message) IN
         IF f.type = "TypeError"
         THEN /\ Finish(console, TypeError, <<>>)
              /\ UNCHANGED console
         ELSE /\ formatted_message' = f
              /\ pc' = "line17"
              /\ UNCHANGED <<message, level, passed, console, mark, history>>

SinkCallRetry(sink) ==
    \E raises \in BOOLEAN :
        LET once == Emit(sink, formatted_message.val)
            cons == IF raises
                    THEN Append(once, [sink |-> sink, text |-> formatted_message.val])
                    ELSE once
        IN /\ console' = cons
           /\ Finish(cons, Returned, IF raises THEN <<sink>> ELSE <<>>)

SinkCallDedup(sink) ==
    IF console # <<>>
       /\ console[Len(console)] = [sink |-> sink, text |-> formatted_message.val]
    THEN /\ console' = console
         /\ Finish(console, Returned, <<>>)
    ELSE \E raises \in BOOLEAN :
             LET cons == Emit(sink, formatted_message.val) IN
               /\ console' = cons
               /\ Finish(cons,
                         IF raises THEN SinkException(sink) ELSE Returned,
                         IF raises THEN <<sink>> ELSE <<>>)

SinkCallOffAfterFailure(sink) ==
    IF \E i \in 1..Len(history) : history[i].raised # <<>>
    THEN /\ console' = console
         /\ Finish(console, Returned, <<>>)
    ELSE \E raises \in BOOLEAN :
             LET cons == Emit(sink, formatted_message.val) IN
               /\ console' = cons
               /\ Finish(cons,
                         IF raises THEN SinkException(sink) ELSE Returned,
                         IF raises THEN <<sink>> ELSE <<>>)

\* App.Console.<sink>(formatted_message): the function is called once, and it
\* returns or raises; nothing catches what it raises.
SinkCall(sink) ==
    \E raises \in BOOLEAN :
        LET cons == Emit(sink, formatted_message.val) IN
          /\ console' = cons
          /\ Finish(cons,
                    IF raises THEN SinkException(sink) ELSE Returned,
                    IF raises THEN <<sink>> ELSE <<>>)

\* Lines 17-24: the branch on level.
Dispatch ==
    /\ pc = "line17"
    /\ IF Branch(level) = "raise"
       THEN /\ Finish(console, ValueError(level), <<>>)
            /\ UNCHANGED console
       ELSE SinkCall(Branch(level))

Init ==
    /\ pc = "idle"
    /\ message = Unbound
    /\ level = Unbound
    /\ passed = Unbound
    /\ formatted_message = Unbound
    /\ console = <<>>
    /\ mark = 0
    /\ history = <<>>

Next ==
    \/ \E m \in Messages, lv \in Levels \cup {Absent} : Call(m, lv)
    \/ Format
    \/ Dispatch

Spec == Init /\ [][Next]_vars

---------------------------------------------------------------------------
\* What the claims speak of

\* The three recognized levels.
Recognized == {Str(S_info), Str(S_warning), Str(S_error)}

\* The level a call ran with: the one passed, "info" when none was passed.
EffectiveLevel(h) == IF h.level = Absent THEN Str(S_info) ELSE h.level

IsText(v) == v.type = "str"

\* A call whose level is one of the three (passed or defaulted).
ValidLevel(h) == EffectiveLevel(h) \in Recognized

\* The sink that corresponds to a recognized level.
SinkOf(lv) ==
    IF lv = Str(S_info) THEN "PrintMessage"
    ELSE IF lv = Str(S_warning) THEN "PrintWarning"
    ELSE "PrintError"

\* prefix, ": ", the message, one line terminator.
Line(m) == WORKBENCH_NAME.val \o <<":", " ">> \o m.val \o <<"\n">>

Calls == 1..Len(history)

\* The writes of all completed calls, one after the other in call order.
RECURSIVE WritesUpTo(_)
WritesUpTo(n) == IF n = 0 THEN <<>> ELSE WritesUpTo(n - 1) \o history[n].writes

\* C1: a call with a text message and level info, warning or error makes
\* exactly one write, to PrintMessage, PrintWarning or PrintError respectively,
\* and so none to the other two sinks.
C1_OneWriteToTheLevelsSink ==
    \A i \in Calls :
        LET h == history[i] IN
        (IsText(h.message) /\ h.level \in Recognized) =>
            /\ Len(h.writes) = 1
            /\ h.writes[1].sink = SinkOf(h.level)

C1_Witness ==
    \E i \in Calls :
        /\ history[i].message = Str(<<"x">>)
        /\ history[i].level = Str(S_warning)
        /\ Len(history[i].writes) = 1
        /\ history[i].writes[1].sink = "PrintWarning"

\* C2: a call with a text message and a level that is passed and is not one of
\* info, warning, error ends with ValueError and has written to no sink, and
\* while such a call is in progress no sink has been written to.
C2_InvalidLevelFailsBeforeAnyWrite ==
    /\ \A i \in Calls :
           LET h == history[i] IN
           (IsText(h.message) /\ h.level # Absent /\ h.level \notin Recognized) =>
               /\ h.result.kind = "ValueError"
               /\ h.writes = <<>>
    /\ (pc # "idle" /\ passed # Absent /\ passed \notin Recognized) =>
           Len(console) = mark

C2_Witness ==
    \E i \in Calls :
        /\ history[i].message = Str(<<"x">>)
        /\ history[i].level = Str(<<"d", "e", "b", "u", "g">>)
        /\ history[i].result.kind = "ValueError"

\* C3: a call with a text message and no level makes one write, to
\* PrintMessage, and it makes the same writes as any call with the same message
\* and level "info", and ends the same way when the sink behaves the same way.
C3_OmittedLevelIsInfo ==
    /\ \A i \in Calls :
           (IsText(history[i].message) /\ history[i].level = Absent) =>
               /\ Len(history[i].writes) = 1
               /\ history[i].writes[1].sink = "PrintMessage"
    /\ \A i, j \in Calls :
           ( /\ IsText(history[i].message)
             /\ history[i].message = history[j].message
             /\ history[i].level = Absent
             /\ history[j].level = Str(S_info) ) =>
               /\ history[i].writes = history[j].writes
               /\ history[i].raised = history[j].raised
                      => history[i].result = history[j].result

C3_Witness ==
    \E i, j \in Calls :
        /\ history[i].message = Str(<<"x">>)
        /\ history[j].message = Str(<<"x">>)
        /\ history[i].level = Absent
        /\ history[j].level = Str(S_info)
        /\ history[i].writes = history[j].writes
        /\ Len(history[i].writes) = 1

\* C4: every string written for a call with a text message m is the prefix,
\* then ": ", then m unchanged, then one "\n", whatever the level.
C4_FormattedString ==
    \A i \in Calls :
        LET h == history[i]
            n == Len(WORKBENCH_NAME.val)
        IN \A k \in 1..Len(h.writes) :
               LET t == h.writes[k].text IN
               /\ Len(t) = n + 2 + Len(h.message.val) + 1
               /\ SubSeq(t, 1, n) = WORKBENCH_NAME.val
               /\ SubSeq(t, n + 1, n + 2) = <<":", " ">>
               /\ SubSeq(t, n + 3, Len(t) - 1) = h.message.val
               /\ t[Len(t)] = "\n"

C4_Witness ==
    \E i \in Calls :
        /\ history[i].message = Str(<<":", " ", "\n">>)
        /\ history[i].level = Str(S_error)
        /\ Len(history[i].writes) = 1
        /\ Len(history[i].writes[1].text) = Len(WORKBENCH_NAME.val) + 6

\* C5 as stated: the console holds one write per call that had a valid level
\* and none per call that had an invalid one, in the order of the calls.
C5_OneWritePerValidLevelCall ==
    /\ \A i \in Calls :
           Len(history[i].writes) = (IF ValidLevel(history[i]) THEN 1 ELSE 0)
    /\ pc = "idle" => console = WritesUpTo(Len(history))

\* C5, amended: the console holds, in the order of the calls, exactly one
\* write (the line of the message, on the level's sink) per call that had a
\* valid level and a text message, and none per call that had an invalid level
\* or a message that is not text.
C5_OneWritePerValidTextCall ==
    /\ \A i \in Calls :
           LET h == history[i] IN
           h.writes = IF ValidLevel(h) /\ IsText(h.message)
                      THEN << [sink |-> SinkOf(EffectiveLevel(h)),
                               text |-> Line(h.message)] >>
                      ELSE <<>>
    /\ pc = "idle" => console = WritesUpTo(Len(history))

C5_Witness ==
    /\ Len(history) = 2
    /\ history[1].message = Str(<<"x">>)
    /\ history[1].level = Str(S_info)
    /\ history[2].message = history[1].message
    /\ history[2].level = history[1].level
    /\ Len(console) = 2
    /\ console[1] = console[2]

\* C6 as stated: the message of the unrecognized-level error holds the level
\* as passed, and two different unrecognized levels give two different
\* messages.
C6_DistinctLevelsDistinctMessages ==
    \A i, j \in Calls :
        ( /\ history[i].result.kind = "ValueError"
          /\ history[j].result.kind = "ValueError"
          /\ history[i].level # history[j].level ) =>
            history[i].result.text # history[j].result.text

\* C6, amended: the message of the unrecognized-level error is
\* "Unrecognized log level '" then str(level) then "'"; for a level that is
\* text this is the level exactly as passed, so two different unrecognized
\* text levels give two different messages (None and "None" give the same).
C6_MessageCarriesStrOfLevel ==
    /\ \A i \in Calls :
           LET h == history[i]
               t == h.result.text
           IN h.result.kind = "ValueError" =>
                  /\ Len(t) = 24 + Len(PyStr(h.level)) + 1
                  /\ SubSeq(t, 25, Len(t) - 1) = PyStr(h.level)
                  /\ t[24] = "'" /\ t[Len(t)] = "'"
                  /\ IsText(h.level) => SubSeq(t, 25, Len(t) - 1) = h.level.val
    /\ \A i, j \in Calls :
           ( /\ history[i].result.kind = "ValueError"
             /\ history[j].result.kind = "ValueError"
             /\ IsText(history[i].level) /\ IsText(history[j].level)
             /\ history[i].level # history[j].level ) =>
               history[i].result.text # history[j].result.text

C6_Witness ==
    /\ Len(history) = 2
    /\ history[1].result.kind = "ValueError"
    /\ history[2].result.kind = "ValueError"
    /\ history[1].level = Str(<<"d", "e", "b", "u", "g">>)
    /\ history[2].level = Str(<<"e", "r", "r">>)
    /\ history[1].result.text # history[2].result.text

\* C7: a call during which a sink raised made exactly one write, on the sink
\* of its level, only that sink raised and only once, and the call ended with
\* that sink's exception.
C7_SinkFailurePropagates ==
    \A i \in Calls :
        LET h == history[i] IN
        h.raised # <<>> =>
            /\ ValidLevel(h)
            /\ Len(h.writes) = 1
            /\ h.writes[1].sink = SinkOf(EffectiveLevel(h))
            /\ h.raised = << SinkOf(EffectiveLevel(h)) >>
            /\ h.result = SinkException(SinkOf(EffectiveLevel(h)))

C7_Witness ==
    \E i \in Calls :
        /\ history[i].level = Str(S_warning)
        /\ history[i].raised = <<"PrintWarning">>
        /\ history[i].result.kind = "SinkError"

\* C8: two calls with the same message and the same level make the same
\* writes, and end the same way when the sink behaves the same way, whatever
\* calls came before them.
C8_NoStateBetweenCalls ==
    \A i, j \in Calls :
        ( /\ history[i].message = history[j].message
          /\ history[i].level = history[j].level ) =>
            /\ history[i].writes = history[j].writes
            /\ history[i].raised = history[j].raised
                   => history[i].result = history[j].result

C8_Witness ==
    /\ Len(history) = 2
    /\ history[1].message = Str(<<"x">>)
    /\ history[2].message = Str(<<"x">>)
    /\ history[1].level = Str(S_error)
    /\ history[2].level = Str(S_error)
    /\ history[1].result.kind = "SinkError"
    /\ history[2].result.kind = "return"

\* C9 as stated: every call with a level that is passed and is not exactly
\* "info", "warning" or "error" raises the unrecognized-level error and writes
\* nothing.
C9_NearMissRaisesValueError ==
    \A i \in Calls :
        LET h == history[i] IN
        (h.level # Absent /\ h.level \notin Recognized) =>
            /\ h.result.kind = "ValueError"
            /\ h.writes = <<>>

\* C9, amended: a level that is passed is never changed before it is compared,
\* and every call with a level that is not exactly "info", "warning" or
\* "error" writes nothing and raises: the unrecognized-level error when the
\* message is text, the formatting error when it is not.
C9_NearMissNeverRouted ==
    /\ (pc # "idle" /\ passed # Absent) => level = passed
    /\ \A i \in Calls :
           LET h == history[i] IN
           (h.level # Absent /\ h.level \notin Recognized) =>
               /\ h.writes = <<>>
               /\ h.result.kind = (IF IsText(h.message) THEN "ValueError"
                                                        ELSE "TypeError")

C9_Witness ==
    /\ Len(history) = 2
    /\ history[1].level = Str(<<"I", "N", "F", "O">>)
    /\ history[1].result.kind = "ValueError"
    /\ history[2].level = None
    /\ history[2].result.kind = "ValueError"

\* C10: a call with a message that is not text ends with the formatting error
\* and no write, whatever its level (recognized or not), and it never reaches
\* the branch on the level.
C10_FormattingFailsFirst ==
    /\ \A i \in Calls :
           LET h == history[i] IN
           ~IsText(h.message) =>
               /\ h.result.kind = "TypeError"
               /\ h.writes = <<>>
    /\ pc = "line17" => IsText(message)

C10_Witness ==
    /\ Len(history) = 2
    /\ history[1].message = None
    /\ history[1].level = Str(<<"d", "e", "b", "u", "g">>)
    /\ history[1].result.kind = "TypeError"
    /\ history[2].message = Int(<<"7">>)
    /\ history[2].level = Str(S_info)
    /\ history[2].result.kind = "TypeError"

====
